---- MODULE Spec2Model ----
(***************************************************************************)
(* Model of reaper (src/main.rs, src/lsof.rs): the App state machine that  *)
(* lists listening processes, filters and sorts them, and kills one.       *)
(*                                                                         *)
(* Strings are sequences of one-character strings, so that substring       *)
(* search, case folding, parsing and comparison are computed as the code   *)
(* computes them.  The fixed texts of format!() calls are kept as single   *)
(* elements ("Force killed process "), the interpolated values as their    *)
(* characters.  Option<T> is a sequence of length 0 (None) or 1 (Some).    *)
(***************************************************************************)
EXTENDS Integers, Sequences, FiniteSets, TLC

\* Longest search query typed in the model.
MaxQueryLen == 2

None == <<>>
Some(x) == <<x>>

----------------------------------------------------------------------------
\* Characters, in ASCII order (the order of str::cmp on these bytes).
Chars ==
  <<" ", "(", ")", "*", "+", ".", "/", ":",
    "0", "1", "2", "3", "4", "5", "6", "7", "8", "9",
    "A", "B", "C", "D", "E", "F", "G", "H", "I", "J", "K", "L", "M",
    "N", "O", "P", "Q", "R", "S", "T", "U", "V", "W", "X", "Y", "Z",
    "a", "b", "c", "d", "e", "f", "g", "h", "i", "j", "k", "l", "m",
    "n", "o", "p", "q", "r", "s", "t", "u", "v", "w", "x", "y", "z">>

Code(c) == CHOOSE i \in 1..Len(Chars) : Chars[i] = c

IsDigit(c) == c \in {"0", "1", "2", "3", "4", "5", "6", "7", "8", "9"}

DigitVal(c) == Code(c) - Code("0")

IsUpper(c) == Code(c) >= Code("A") /\ Code(c) <= Code("Z")

\* char::to_lowercase on ASCII
LowerChar(c) == IF IsUpper(c) THEN Chars[Code(c) + 26] ELSE c

\* str::to_lowercase
to_lowercase(s) == [i \in 1..Len(s) |-> LowerChar(s[i])]

\* str::contains
contains(hay, needle) ==
  \E i \in 0..(Len(hay) - Len(needle)) : SubSeq(hay, i + 1, i + Len(needle)) = needle

\* Ordering: -1 Less, 0 Equal, 1 Greater
IntCmp(a, b) == IF a < b THEN -1 ELSE IF a > b THEN 1 ELSE 0

RECURSIVE StrCmp(_, _)
\* str::cmp: lexicographic by byte
StrCmp(a, b) ==
  IF a = <<>> /\ b = <<>> THEN 0
  ELSE IF a = <<>> THEN -1
  ELSE IF b = <<>> THEN 1
  ELSE IF Head(a) # Head(b) THEN IntCmp(Code(Head(a)), Code(Head(b)))
  ELSE StrCmp(Tail(a), Tail(b))

RECURSIVE DigitsVal(_, _)
DigitsVal(s, acc) ==
  IF s = <<>> THEN acc ELSE DigitsVal(Tail(s), acc * 10 + DigitVal(Head(s)))

\* u32::MAX, as text
U32MaxText == <<"4", "2", "9", "4", "9", "6", "7", "2", "9", "5">>

RECURSIVE StripZeros(_)
StripZeros(s) == IF Len(s) > 1 /\ Head(s) = "0" THEN StripZeros(Tail(s)) ELSE s

\* d, digits without leading zeros, denotes more than u32::MAX
TooBig(d) ==
  Len(d) > Len(U32MaxText) \/ (Len(d) = Len(U32MaxText) /\ StrCmp(d, U32MaxText) > 0)

Overflows(digits) == TooBig(StripZeros(digits))

\* the text after the optional sign
ParseDigits(body) ==
  IF body = <<>> \/ (\E i \in 1..Len(body) : ~IsDigit(body[i])) THEN None
  ELSE IF Overflows(body) THEN None
  ELSE Some(DigitsVal(body, 0))

\* str::parse::<u32>: Some(n), or None for anything that is not an optional
\* '+' followed by digits that fit in 32 bits.  (The texts of the model have
\* fewer than ten digits, so n is within the integers of the checker.)
parse_u32(s) == ParseDigits(IF s # <<>> /\ Head(s) = "+" THEN Tail(s) ELSE s)

unwrap_or(opt, d) == IF opt = None THEN d ELSE opt[1]

RECURSIVE trim_start(_)
trim_start(s) == IF s # <<>> /\ Head(s) = " " THEN trim_start(Tail(s)) ELSE s

RECURSIVE trim_end(_)
trim_end(s) ==
  IF s # <<>> /\ s[Len(s)] = " " THEN trim_end(SubSeq(s, 1, Len(s) - 1)) ELSE s

\* str::trim
trim(s) == trim_end(trim_start(s))

RECURSIVE replace(_, _, _)
\* str::replace(pat, to): every non-overlapping match, left to right
replace(s, pat, to) ==
  IF Len(s) < Len(pat) THEN s
  ELSE IF SubSeq(s, 1, Len(pat)) = pat
       THEN to \o replace(SubSeq(s, Len(pat) + 1, Len(s)), pat, to)
       ELSE <<Head(s)>> \o replace(Tail(s), pat, to)

Max(S) == CHOOSE i \in S : \A j \in S : j <= i

Min(S) == CHOOSE i \in S : \A j \in S : i <= j

\* name.split(':').last(): the text after the last ':' (the whole text when
\* there is none); split always yields at least one piece.
split_last(s, sep) ==
  SubSeq(s, Max({0} \cup {i \in 1..Len(s) : s[i] = sep}) + 1, Len(s))

LISTEN == <<"(", "L", "I", "S", "T", "E", "N", ")">>

\* mutant: the suffix is not removed
extract_port_NoStrip(name) ==
  unwrap_or(parse_u32(trim(split_last(name, ":"))), 0)

extract_port(name) ==
  unwrap_or(parse_u32(trim(replace(split_last(name, ":"), LISTEN, <<>>))), 0)

\* the port shown in a row of the list (let port = ... in render)
port(name) == trim(replace(split_last(name, ":"), LISTEN, <<>>))

----------------------------------------------------------------------------
\* Result<T, E>
Ok(v) == [ok |-> TRUE, val |-> v, err |-> <<>>]
Err(e) == [ok |-> FALSE, val |-> <<>>, err |-> e]

\* where the first field of s ends: its first blank, or its end
FieldEnd(s) == Min({Len(s) + 1} \cup {i \in 1..Len(s) : s[i] = " "})

RECURSIVE SplitFields(_)
\* the fields of s, which does not start with a blank
SplitFields(s) ==
  IF s = <<>> THEN <<>>
  ELSE <<SubSeq(s, 1, FieldEnd(s) - 1)>>
       \o SplitFields(trim_start(SubSeq(s, FieldEnd(s), Len(s))))

\* str::split_whitespace: the maximal runs of non-blank characters
split_whitespace(line) == SplitFields(trim_start(line))

RECURSIVE join(_, _)
\* [&str]::join(sep)
join(fields, sep) ==
  IF fields = <<>> THEN <<>>
  ELSE IF Len(fields) = 1 THEN fields[1]
  ELSE fields[1] \o sep \o join(Tail(fields), sep)

starts_with(s, prefix) ==
  Len(s) >= Len(prefix) /\ SubSeq(s, 1, Len(prefix)) = prefix

RECURSIVE ScanNetstat(_, _)
ScanNetstat(lines, pid) ==
  IF lines = <<>> THEN <<"T", "C", "P">>
  ELSE IF contains(Head(lines), pid) /\ starts_with(Head(lines), <<"t", "c", "p">>)
       THEN <<"T", "C", "P">>
  ELSE IF contains(Head(lines), pid) /\ starts_with(Head(lines), <<"u", "d", "p">>)
       THEN <<"U", "D", "P">>
  ELSE ScanNetstat(Tail(lines), pid)

\* netstat is None when the command could not be run, else Some(its lines)
get_protocol_for_pid(pid, netstat) ==
  IF netstat = None THEN <<"T", "C", "P">> ELSE ScanNetstat(netstat[1], pid)

\* rss is None when ps could not be run, else Some(its output).  memory_mb
\* is kept in units of 1/1024 MB: dividing by 1024.0 is exact in f64 and
\* keeps the order.  Only unsigned integer texts are parsed, as ps prints.
get_memory_usage(rss) ==
  IF rss = None THEN 0 ELSE unwrap_or(parse_u32(trim(rss[1])), 0)

HourSecs == 3600

\* lstart is None when ps could not be run, else Some(its output); now is
\* the clock reading of the call.
get_process_start_time(lstart, now) ==
  IF lstart = None THEN None
  ELSE IF trim(lstart[1]) # <<>> THEN Some(now - HourSecs)
  ELSE None

\* ps: what the three lookups see for one pid at the time of the call
get_process_info(pid, ps) ==
  [protocol |-> get_protocol_for_pid(pid, ps.netstat),
   memory_mb |-> get_memory_usage(ps.rss),
   start_time |-> get_process_start_time(ps.lstart, ps.now)]

LsofEntry(fields, info) ==
  [command |-> fields[1], pid |-> fields[2], user |-> fields[3],
   fd |-> fields[4], type_ |-> fields[5], device |-> fields[6],
   size_off |-> fields[7], node |-> fields[8],
   name |-> join(SubSeq(fields, 9, Len(fields)), <<" ">>),
   protocol |-> info.protocol, memory_mb |-> info.memory_mb,
   start_time |-> info.start_time]

MinFields == 9

\* mutant: a line of exactly nine fields is dropped
ParseLine_Strict(fields, ps) ==
  IF Len(fields) > MinFields
  THEN <<LsofEntry(fields, get_process_info(fields[2], ps))>>
  ELSE <<>>

\* the body of the loop: the entries one line adds
ParseLine(fields, ps) ==
  IF Len(fields) >= MinFields
  THEN <<LsofEntry(fields, get_process_info(fields[2], ps))>>
  ELSE <<>>

RECURSIVE ParseLines(_, _, _)
\* the loop over the lines after the header; ps[i] is what the lookups see
\* while line i is handled
ParseLines(lines, ps, i) ==
  IF i > Len(lines) THEN <<>>
  ELSE ParseLine(split_whitespace(lines[i]), ps[i]) \o ParseLines(lines, ps, i + 1)

\* run: one execution of lsof.  spawn is None, or Some(io error text) when
\* the command could not be run; stdout is its output as lines.
get_listening_processes(run) ==
  IF run.spawn # None THEN Err(run.spawn[1])
  ELSE IF ~run.success THEN Err(<<"lsof command failed: ">> \o run.stderr)
  ELSE Ok(ParseLines(IF run.stdout = <<>> THEN <<>> ELSE Tail(run.stdout), run.ps, 1))

\* out: one execution of kill -TERM
kill_process(pid, out) ==
  IF out.spawn # None THEN Err(out.spawn[1])
  ELSE IF ~out.success
       THEN Err(<<"Failed to kill process ">> \o pid \o <<": ">> \o out.stderr)
  ELSE Ok(<<>>)

\* out: one execution of kill -KILL
force_kill_process(pid, out) ==
  IF out.spawn # None THEN Err(out.spawn[1])
  ELSE IF ~out.success
       THEN Err(<<"Failed to force kill process ">> \o pid \o <<": ">> \o out.stderr)
  ELSE Ok(<<>>)

----------------------------------------------------------------------------
\* What the external commands can answer.

PsInfo(netstat, rss, lstart, now) ==
  [netstat |-> netstat, rss |-> rss, lstart |-> lstart, now |-> now]

Header == <<"C", "O", "M", "M", "A", "N", "D", " ", "P", "I", "D", " ", "U", "S", "E", "R", " ", "F", "D", " ", "T", "Y", "P", "E", " ", "D", "E", "V", "I", "C", "E", " ", "S", "I", "Z", "E", "/", "O", "F", "F", " ", "N", "O", "D", "E", " ", "N", "A", "M", "E">>
LineAb == <<"A", "b", " ", "1", "2", " ", "a", "l", " ", "3", "u", " ", "4", " ", "d", " ", "0", "t", "0", " ", "T", "C", "P", " ", "*", ":", "8", "0", " ", "(", "L", "I", "S", "T", "E", "N", ")">>
LineBa == <<"b", "a", " ", "7", " ", "b", "o", " ", "5", "u", " ", "4", " ", "d", " ", "0", "t", "0", " ", "T", "C", "P", " ", "*", ":", "4", "4", "3", " ", "(", "L", "I", "S", "T", "E", "N", ")">>
LineCq == <<"c", "q", " ", "3", "0", " ", "c", "y", " ", "3", "u", " ", "4", " ", "d", " ", "0", "t", "0", " ", "T", "C", "P", " ", "*", ":", "8", "0", " ", "(", "L", "I", "S", "T", "E", "N", ")">>
LineAb6 == <<"A", "b", " ", "1", "2", " ", "a", "l", " ", "4", "u", " ", "6", " ", "d", " ", "0", "t", "0", " ", "T", "C", "P", " ", "*", ":", "8", "0", " ", "(", "L", "I", "S", "T", "E", "N", ")">>
LineShort == <<"d", "d", " ", "9", " ", "a", "l", " ", "3", "u", " ", "4", " ", "d">>

NetstatOut == Some(<<<<"t", "c", "p", " ", "0", " ", "0", " ", "0", ".", "0", ".", "0", ".", "0", ":", "8", "0", " ", "L", "I", "S", "T", "E", "N", " ", "1", "2", "/", "A", "b">>, <<"u", "d", "p", " ", "0", " ", "0", " ", "0", ".", "0", ".", "0", ".", "0", ":", "8", "0", " ", "3", "0", "/", "c", "q">>>>)

PsAb == PsInfo(NetstatOut, Some(<<" ", "2", "0", "4", "8">>), Some(<<"M", "o", "n">>), 3605)
PsBa == PsInfo(None, Some(<<"5", "1", "2">>), None, 3606)
PsCq == PsInfo(NetstatOut, Some(<<>>), Some(<<" ">>), 3607)
PsCq2 == PsInfo(NetstatOut, None, Some(<<"T", "u", "e">>), 3609)

LsofRun(spawn, success, stdout, stderr, ps) ==
  [spawn |-> spawn, success |-> success, stdout |-> stdout, stderr |-> stderr, ps |-> ps]

LsofRuns ==
  <<LsofRun(Some(<<"No such file or directory (os error 2)">>), FALSE, <<>>, <<>>, <<>>),
    LsofRun(None, FALSE, <<>>, <<"lsof: status error">>, <<>>),
    LsofRun(None, TRUE, <<Header>>, <<>>, <<>>),
    LsofRun(None, TRUE, <<Header, LineAb, LineBa>>, <<>>, <<PsAb, PsBa>>),
    LsofRun(None, TRUE, <<Header, LineBa, LineShort, LineCq, LineAb>>, <<>>,
            <<PsBa, PsAb, PsCq, PsAb>>),
    LsofRun(None, TRUE, <<Header, LineCq>>, <<>>, <<PsCq2>>),
    LsofRun(None, TRUE, <<Header, LineAb, LineAb6>>, <<>>, <<PsAb, PsAb>>)>>

RunIds == 1..Len(LsofRuns)

\* the answer of lsof::get_listening_processes() in each run
Discovered == [r \in RunIds |-> get_listening_processes(LsofRuns[r])]

\* the characters typed into the search box
TypedChars == {"A", "q"}

KillOut(spawn, success, stderr) ==
  [spawn |-> spawn, success |-> success, stderr |-> stderr]

KillOuts ==
  {KillOut(None, TRUE, <<>>),
   KillOut(None, FALSE, <<"No such process">>),
   KillOut(Some(<<"Resource temporarily unavailable (os error 11)">>), FALSE, <<>>)}

----------------------------------------------------------------------------
\* main.rs: the filter and the sort

SortKeys == {"Port", "Pid", "User", "Command", "Memory", "StartTime"}

\* mutant: the user is not searched
MatchesLower_NoUser(process, query_lower) ==
  \/ contains(to_lowercase(process.command), query_lower)
  \/ contains(to_lowercase(process.name), query_lower)
  \/ contains(process.pid, query_lower)

MatchesLower(process, query_lower) ==
  \/ contains(to_lowercase(process.command), query_lower)
  \/ contains(to_lowercase(process.user), query_lower)
  \/ contains(to_lowercase(process.name), query_lower)
  \/ contains(process.pid, query_lower)

\* the closure of the filter in apply_filter_and_sort
Matches(process, search_query) == MatchesLower(process, to_lowercase(search_query))

Filter(processes, search_query) ==
  IF search_query = <<>> THEN processes
  ELSE SelectSeq(processes, LAMBDA process : Matches(process, search_query))

StartTimeCmp(a, b) ==
  IF a.start_time # None /\ b.start_time # None
  THEN IntCmp(a.start_time[1], b.start_time[1])
  ELSE IF a.start_time # None THEN -1
  ELSE IF b.start_time # None THEN 1
  ELSE 0

\* the comparison of the two entries under the sort key
KeyCmp(a, b, sort_by) ==
  CASE sort_by = "Port" -> IntCmp(extract_port(a.name), extract_port(b.name))
    [] sort_by = "Pid" ->
         IntCmp(unwrap_or(parse_u32(a.pid), 0), unwrap_or(parse_u32(b.pid), 0))
    [] sort_by = "User" -> StrCmp(a.user, b.user)
    [] sort_by = "Command" -> StrCmp(a.command, b.command)
    [] sort_by = "Memory" -> IntCmp(a.memory_mb, b.memory_mb)
    [] sort_by = "StartTime" -> StartTimeCmp(a, b)

\* mutant: the direction is ignored
Directed_Ignore(comparison, sort_ascending) == comparison

\* Ordering::reverse unless ascending
Directed(comparison, sort_ascending) ==
  IF sort_ascending THEN comparison ELSE -comparison

\* the closure given to sort_by
Comparison(a, b, sort_by, sort_ascending) ==
  Directed(KeyCmp(a, b, sort_by), sort_ascending)

InsertAt(sorted, x, at) ==
  SubSeq(sorted, 1, at) \o <<x>> \o SubSeq(sorted, at + 1, Len(sorted))

\* x goes after every element it is not Less than: equal elements keep
\* their order
InsertSorted(sorted, x, sort_by, sort_ascending) ==
  InsertAt(sorted, x,
           Min({i \in 0..Len(sorted) :
                  \A j \in (i + 1)..Len(sorted) :
                    Comparison(x, sorted[j], sort_by, sort_ascending) < 0}))

RECURSIVE SortBy(_, _, _)
\* slice::sort_by: a stable sort
SortBy(v, sort_by, sort_ascending) ==
  IF v = <<>> THEN <<>>
  ELSE InsertSorted(SortBy(SubSeq(v, 1, Len(v) - 1), sort_by, sort_ascending),
                    v[Len(v)], sort_by, sort_ascending)

\* the filter, then the sort
FilterAndSort(processes, search_query, sort_by, sort_ascending) ==
  SortBy(Filter(processes, search_query), sort_by, sort_ascending)

\* every snapshot lsof can give, and the empty one of App::default()
Snapshots == {<<>>} \cup {Discovered[r].val : r \in RunIds}

RECURSIVE SeqsUpTo(_, _)
SeqsUpTo(S, n) ==
  IF n = 0 THEN {<<>>}
  ELSE LET shorter == SeqsUpTo(S, n - 1)
       IN shorter \cup {Append(q, c) : q \in shorter, c \in S}

\* every query that can be typed
Queries == SeqsUpTo(TypedChars, MaxQueryLen)

\* FilterAndSort, tabulated over the values the model meets
Views ==
  [p \in Snapshots, q \in Queries, k \in SortKeys, a \in BOOLEAN |->
     FilterAndSort(p, q, k, a)]

apply_filter_and_sort(s) ==
  [s EXCEPT !.filtered_processes =
     Views[s.processes, s.search_query, s.sort_by, s.sort_ascending]]

\* list_state.select(if filtered_processes.is_empty() { None } else { Some(i) })
SelectRow(s, i) ==
  [s EXCEPT !.list_state = IF s.filtered_processes = <<>> THEN None ELSE Some(i)]

----------------------------------------------------------------------------
\* main.rs: App

\* App::new()
NewApp ==
  [running |-> FALSE,
   processes |-> <<>>,
   filtered_processes |-> <<>>,
   error_message |-> None,
   status_message |-> Some(<<"Loading processes...">>),
   mode |-> "ProcessList",
   selected_index |-> 0,
   list_state |-> Some(0),
   confirm_button_selected |-> TRUE,
   search_query |-> <<>>,
   sort_by |-> "Port",
   sort_ascending |-> FALSE]

\* mutant: the search is kept
ClearDeadSearch_Keep(s) == s

\* an active search without results is cleared
ClearDeadSearch(s) ==
  IF s.search_query # <<>> /\ s.filtered_processes = <<>>
  THEN apply_filter_and_sort([s EXCEPT !.search_query = <<>>])
  ELSE s

\* mutant: the error is kept
ClearMessages_KeepError(s) == [s EXCEPT !.status_message = None]

ClearMessages(s) == [s EXCEPT !.error_message = None, !.status_message = None]

\* mutant: the cursor is left where it was
ClampIndex_Keep(s) == s

\* mutant: the cursor goes to the last row
ClampIndex_Last(s) ==
  IF s.selected_index >= Len(s.filtered_processes)
  THEN [s EXCEPT !.selected_index = Max({0, Len(s.filtered_processes) - 1})]
  ELSE s

ClampIndex(s) ==
  IF s.selected_index >= Len(s.filtered_processes)
  THEN [s EXCEPT !.selected_index = 0]
  ELSE s

SelectCurrent(s) == SelectRow(s, s.selected_index)

\* mutant: a successful discovery closes the dialog and the search box
RefreshOk_ToList(s) ==
  [SelectCurrent(ClampIndex(ClearMessages(ClearDeadSearch(apply_filter_and_sort(s)))))
     EXCEPT !.mode = "ProcessList"]

\* the Ok arm after self.processes = processes
RefreshOk(s) ==
  SelectCurrent(ClampIndex(ClearMessages(ClearDeadSearch(apply_filter_and_sort(s)))))

\* mutant: a failed discovery empties the snapshot
RefreshWith_DropSnapshot(s, res) ==
  IF res.ok
  THEN RefreshOk([s EXCEPT !.processes = res.val])
  ELSE [s EXCEPT !.error_message = Some(<<"Failed to get processes: ">> \o res.err),
                 !.status_message = None,
                 !.processes = <<>>,
                 !.filtered_processes = <<>>]

\* mutant: a failed discovery keeps the status
RefreshWith_KeepStatus(s, res) ==
  IF res.ok
  THEN RefreshOk([s EXCEPT !.processes = res.val])
  ELSE [s EXCEPT !.error_message = Some(<<"Failed to get processes: ">> \o res.err)]

\* res: the answer of lsof::get_listening_processes()
RefreshWith(s, res) ==
  IF res.ok
  THEN RefreshOk([s EXCEPT !.processes = res.val])
  ELSE [s EXCEPT !.error_message = Some(<<"Failed to get processes: ">> \o res.err),
                 !.status_message = None]

\* run: the execution of lsof this call makes
refresh_processes(s, run) == RefreshWith(s, Discovered[run])

\* selected_index = i; list_state.select(Some(selected_index))
MoveTo(s, i) == [s EXCEPT !.selected_index = i, !.list_state = Some(i)]

select_previous(s) ==
  IF s.filtered_processes # <<>>
  THEN MoveTo(s, IF s.selected_index > 0 THEN s.selected_index - 1
                 ELSE Len(s.filtered_processes) - 1)
  ELSE s

\* mutant: the cursor stays on the last row
select_next_NoWrap(s) ==
  IF s.filtered_processes = <<>> THEN s
  ELSE MoveTo(s, Min({s.selected_index + 1, Len(s.filtered_processes) - 1}))

select_next(s) ==
  IF s.filtered_processes # <<>>
  THEN MoveTo(s, IF s.selected_index < Len(s.filtered_processes) - 1
                 THEN s.selected_index + 1
                 ELSE 0)
  ELSE s

\* mutant: the dialog opens on an empty view too
enter_confirm_mode_Always(s) ==
  [s EXCEPT !.mode = "ConfirmKill", !.confirm_button_selected = TRUE]

enter_confirm_mode(s) ==
  IF s.filtered_processes # <<>>
  THEN [s EXCEPT !.mode = "ConfirmKill", !.confirm_button_selected = TRUE]
  ELSE s

enter_search_mode(s) == [s EXCEPT !.mode = "Search"]

\* mutant: the cursor stays where it was
ApplyAndReset_KeepCursor(s) == SelectCurrent(apply_filter_and_sort(s))

\* apply_filter_and_sort, then selected_index = 0 and the list selection
ApplyAndReset(s) ==
  SelectRow([apply_filter_and_sort(s) EXCEPT !.selected_index = 0], 0)

\* mutant: the view is not computed again
exit_search_mode_NoApply(s) ==
  SelectRow([s EXCEPT !.mode = "ProcessList", !.search_query = <<>>,
                      !.selected_index = 0], 0)

exit_search_mode(s) ==
  ApplyAndReset([s EXCEPT !.mode = "ProcessList", !.search_query = <<>>])

apply_search(s) == ApplyAndReset([s EXCEPT !.mode = "ProcessList"])

\* String::pop
pop(q) == IF q = <<>> THEN q ELSE SubSeq(q, 1, Len(q) - 1)

\* mutant: the cycle runs the other way
NextSort_Backwards(sort_by) ==
  CASE sort_by = "Port" -> "StartTime"
    [] sort_by = "Pid" -> "Port"
    [] sort_by = "User" -> "Pid"
    [] sort_by = "Command" -> "User"
    [] sort_by = "Memory" -> "Command"
    [] sort_by = "StartTime" -> "Memory"

NextSort(sort_by) ==
  CASE sort_by = "Port" -> "Pid"
    [] sort_by = "Pid" -> "User"
    [] sort_by = "User" -> "Command"
    [] sort_by = "Command" -> "Memory"
    [] sort_by = "Memory" -> "StartTime"
    [] sort_by = "StartTime" -> "Port"

\* mutant: the view is not sorted again
cycle_sort_NoApply(s) == [s EXCEPT !.sort_by = NextSort(s.sort_by)]

cycle_sort(s) == apply_filter_and_sort([s EXCEPT !.sort_by = NextSort(s.sort_by)])

\* mutant: a new key keeps the direction
set_sort_KeepDirection(s, sort_by) ==
  apply_filter_and_sort(
    IF s.sort_by = sort_by
    THEN [s EXCEPT !.sort_ascending = ~s.sort_ascending]
    ELSE [s EXCEPT !.sort_by = sort_by])

set_sort(s, sort_by) ==
  apply_filter_and_sort(
    IF s.sort_by = sort_by
    THEN [s EXCEPT !.sort_ascending = ~s.sort_ascending]
    ELSE [s EXCEPT !.sort_by = sort_by, !.sort_ascending = FALSE])

\* mutant: the first row, whatever the cursor
Selected_FirstRow(s) ==
  IF s.filtered_processes # <<>> THEN Some(s.filtered_processes[1]) ELSE None

\* filtered_processes.get(selected_index)
Selected(s) ==
  IF s.selected_index < Len(s.filtered_processes)
  THEN Some(s.filtered_processes[s.selected_index + 1])
  ELSE None

KilledMessage(command, pid) ==
  <<"Successfully killed process ">> \o command \o <<" (">> \o pid \o <<")">>

ForceKilledMessage(command, pid) ==
  <<"Force killed process ">> \o command \o <<" (">> \o pid \o <<")">>

\* mutant: the first failure is left out
BothFailedMessage_ForceOnly(e, force_err) ==
  <<"Failed to kill process: ">> \o force_err

BothFailedMessage(e, force_err) ==
  <<"Failed to kill process: ">> \o e \o <<" | Force kill also failed: ">> \o force_err

\* the arms of a successful kill: the message, the mode, the sleep, the refresh
Killed(s, message, run) ==
  refresh_processes([s EXCEPT !.status_message = Some(message),
                              !.error_message = None,
                              !.mode = "ProcessList"], run)

\* the arm of the double failure
BothFailed(s, e, force_err) ==
  [s EXCEPT !.error_message = Some(BothFailedMessage(e, force_err)),
            !.status_message = None,
            !.mode = "ProcessList"]

\* one execution of kill: the signal, the pid, what the call answered
Command(signal, pid, result) ==
  [signal |-> signal, pid |-> pid, ok |-> result.ok, err |-> result.err]

\* what a handler leaves: the App, and the kill commands it ran, in order
Effect(s, commands) == [app |-> s, spawned |-> commands]

\* the arm Err(e) of the first match: force_kill_process is called, result
\* is what it answers
Escalate(s, process, e, term, result, run) ==
  Effect(IF result.ok
         THEN Killed(s, ForceKilledMessage(process.command, process.pid), run)
         ELSE BothFailed(s, e, result.err),
         <<term, Command("KILL", process.pid, result)>>)

\* mutant: the forced kill follows even a successful kill
KillSelected_AlwaysForce(s, process, result, env) ==
  Escalate(s, process, result.err, Command("TERM", process.pid, result),
           force_kill_process(process.pid, env.force), env.run)

\* kill_process has been called: the match on result, what it answered
KillSelected(s, process, result, env) ==
  IF result.ok
  THEN Effect(Killed(s, KilledMessage(process.command, process.pid), env.run),
              <<Command("TERM", process.pid, result)>>)
  ELSE Escalate(s, process, result.err, Command("TERM", process.pid, result),
                force_kill_process(process.pid, env.force), env.run)

\* env.term, env.force: the executions of kill this call makes, if it makes
\* them; env.run: the execution of lsof of the refresh
ConfirmKill(s, env) ==
  IF Selected(s) = None THEN Effect(s, <<>>)
  ELSE KillSelected(s, Selected(s)[1], kill_process(Selected(s)[1].pid, env.term), env)

confirm_kill(s, env) == ConfirmKill(s, env).app

\* mutant: the error is cleared as well
cancel_kill_ClearError(s) == [s EXCEPT !.mode = "ProcessList", !.error_message = None]

cancel_kill(s) == [s EXCEPT !.mode = "ProcessList"]

\* mutant: running stays true
quit_Ignore(s) == s

quit(s) == [s EXCEPT !.running = FALSE]

----------------------------------------------------------------------------
\* Key events.  ctrl: the modifiers are exactly CONTROL (else none).

Key(code, ch, ctrl) == [code |-> code, ch |-> ch, ctrl |-> ctrl]

IsChar(key, chars) == key.code = "Char" /\ key.ch \in chars

DigitSort(ch) ==
  CASE ch = "1" -> "Port"
    [] ch = "2" -> "Pid"
    [] ch = "3" -> "User"
    [] ch = "4" -> "Command"
    [] ch = "5" -> "Memory"
    [] ch = "6" -> "StartTime"

\* mutant: the arrow moves the highlight to the other button
SetButton_Toggle(s, yes) ==
  [s EXCEPT !.confirm_button_selected = ~s.confirm_button_selected]

\* Left: confirm_button_selected = true; Right: confirm_button_selected = false
SetButton(s, yes) == [s EXCEPT !.confirm_button_selected = yes]

\* the arm of the match in on_key_event that the key selects
Arm(s, key) ==
  CASE s.mode = "ProcessList" ->
         IF key.code = "Esc"
         THEN (IF s.search_query # <<>> THEN "clear_search" ELSE "quit")
         ELSE IF IsChar(key, {"q"}) \/ (key.ctrl /\ IsChar(key, {"c", "C"})) THEN "quit"
         ELSE IF IsChar(key, {"r", "R"}) THEN "refresh_processes"
         ELSE IF key.code = "Up" THEN "select_previous"
         ELSE IF key.code = "Down" THEN "select_next"
         ELSE IF key.code = "Enter" THEN "enter_confirm_mode"
         ELSE IF IsChar(key, {"/"}) THEN "enter_search_mode"
         ELSE IF IsChar(key, {"s", "S"}) THEN "cycle_sort"
         ELSE IF IsChar(key, {"1", "2", "3", "4", "5", "6"}) THEN "set_sort"
         ELSE IF key.code = "Backspace" /\ s.search_query # <<>> THEN "backspace"
         ELSE "ignored"
    [] s.mode = "ConfirmKill" ->
         IF IsChar(key, {"y", "Y"}) THEN "confirm_kill"
         ELSE IF IsChar(key, {"n", "N"}) \/ key.code = "Esc" THEN "cancel_kill"
         ELSE IF key.code = "Left" THEN "left"
         ELSE IF key.code = "Right" THEN "right"
         ELSE IF key.code = "Enter"
         THEN (IF s.confirm_button_selected THEN "confirm_kill" ELSE "cancel_kill")
         ELSE "ignored"
    [] s.mode = "Search" ->
         IF key.code = "Esc" THEN "exit_search_mode"
         ELSE IF key.code = "Enter" THEN "apply_search"
         ELSE IF key.code = "Backspace" THEN "backspace"
         ELSE IF key.code = "Char" THEN "push"
         ELSE "ignored"

\* the body of the arm
RunArm(arm, s, key, env) ==
  CASE arm = "clear_search" -> ApplyAndReset([s EXCEPT !.search_query = <<>>])
    [] arm = "quit" -> quit(s)
    [] arm = "refresh_processes" -> refresh_processes(s, env.run)
    [] arm = "select_previous" -> select_previous(s)
    [] arm = "select_next" -> select_next(s)
    [] arm = "enter_confirm_mode" -> enter_confirm_mode(s)
    [] arm = "enter_search_mode" -> enter_search_mode(s)
    [] arm = "cycle_sort" -> cycle_sort(s)
    [] arm = "set_sort" -> set_sort(s, DigitSort(key.ch))
    [] arm = "backspace" -> ApplyAndReset([s EXCEPT !.search_query = pop(s.search_query)])
    [] arm = "confirm_kill" -> confirm_kill(s, env)
    [] arm = "cancel_kill" -> cancel_kill(s)
    [] arm = "left" -> SetButton(s, TRUE)
    [] arm = "right" -> SetButton(s, FALSE)
    [] arm = "exit_search_mode" -> exit_search_mode(s)
    [] arm = "apply_search" -> apply_search(s)
    [] arm = "push" ->
         ApplyAndReset([s EXCEPT !.search_query = Append(s.search_query, key.ch)])
    [] arm = "ignored" -> s

\* status_message is cleared first when the mode is ProcessList
ClearStatus(s) ==
  IF s.mode = "ProcessList" THEN [s EXCEPT !.status_message = None] ELSE s

on_key_event(s, key, env) == RunArm(Arm(ClearStatus(s), key), ClearStatus(s), key, env)

\* the kill commands on_key_event runs
Spawned(s, key, env) ==
  IF Arm(s, key) = "confirm_kill" THEN ConfirmKill(s, env).spawned ELSE <<>>

NoOut == KillOut(None, TRUE, <<>>)

NoKey == Key("None", "", FALSE)

\* The executions of external commands that handling the key can meet, out
\* of the given ones: a kill -KILL only after a failed kill -TERM, an lsof
\* only when the handler refreshes (run 0: no lsof is run).
Envs(s, key, runs, outs) ==
  IF Arm(s, key) = "refresh_processes"
  THEN {[term |-> NoOut, force |-> NoOut, run |-> r] : r \in runs}
  ELSE IF Arm(s, key) = "confirm_kill" /\ Selected(s) # None
  THEN {[term |-> t, force |-> NoOut, run |-> r] :
          t \in {o \in outs : kill_process(<<>>, o).ok}, r \in runs}
       \cup {[term |-> t, force |-> f, run |-> r] :
               t \in {o \in outs : ~kill_process(<<>>, o).ok},
               f \in {o \in outs : force_kill_process(<<>>, o).ok},
               r \in runs}
       \cup {[term |-> t, force |-> f, run |-> 0] :
               t \in {o \in outs : ~kill_process(<<>>, o).ok},
               f \in {o \in outs : ~force_kill_process(<<>>, o).ok}}
  ELSE {[term |-> NoOut, force |-> NoOut, run |-> 0]}

----------------------------------------------------------------------------
\* App::run

VARIABLES
  app,        \* the App
  pc,         \* position of run: "new", "poll", "timers", "done"
  lastEvent,  \* history: what the last step handled
  spawned,    \* history: the kill commands the last step ran
  preSearch,  \* history: the view when the search box was opened
  dialogPid,  \* history: the pid selected when the confirm dialog was opened
  call        \* a function called on its own: its arguments and its result

vars == <<app, pc, lastEvent, spawned, preSearch, dialogPid, call>>

\* no function is called on its own while the loop runs
NoCall == [fn |-> "none"]

\* What the key answers in the state s: "yes" to the confirm dialog ('y', or
\* Enter with Yes highlighted), "no" to it ('n', Esc, or Enter with No
\* highlighted), "cancel" to the search box (Esc), else "none".
Answer(s, key) ==
  IF /\ s.mode = "ConfirmKill"
     /\ \/ IsChar(key, {"y", "Y"})
        \/ key.code = "Enter" /\ s.confirm_button_selected
  THEN "yes"
  ELSE IF /\ s.mode = "ConfirmKill"
          /\ \/ IsChar(key, {"n", "N"})
             \/ key.code = "Esc"
             \/ key.code = "Enter" /\ ~s.confirm_button_selected
  THEN "no"
  ELSE IF s.mode = "Search" /\ key.code = "Esc" THEN "cancel"
  ELSE "none"

\* What a step handled, in the state s: the kind of event, what the key
\* answered, whether a search query was in force before the step, and lsof:
\* "none" when the step ran no lsof, else "ok" or "err".
Event(kind, key, s, run) ==
  [kind |-> kind, answer |-> Answer(s, key), searching |-> s.search_query # <<>>,
   lsof |-> IF run = 0 THEN "none" ELSE IF Discovered[run].ok THEN "ok" ELSE "err"]

NoPreSearch ==
  [active |-> FALSE, filtered_processes |-> <<>>, selected_index |-> 0,
   search_query |-> <<>>]

\* History of the confirm dialog across a step from s to t: the pid of the
\* row selected when the dialog was opened, kept while it is open and through
\* the step that closes it.
TrackDialog(s, t) ==
  IF s.mode # "ConfirmKill" /\ t.mode = "ConfirmKill" THEN Some(Selected(s)[1].pid)
  ELSE IF s.mode = "ConfirmKill" THEN dialogPid
  ELSE None

\* History of the search box across a step from s to t: the view and the
\* cursor from before the box was opened, kept while the box is open, through
\* the step that closes it, and until a refresh changes the snapshot.
TrackSearch(s, t) ==
  IF s.mode # "Search" /\ t.mode = "Search"
  THEN [active |-> TRUE,
        filtered_processes |-> s.filtered_processes,
        selected_index |-> s.selected_index,
        search_query |-> s.search_query]
  ELSE IF s.mode = "Search" /\ t.processes = s.processes
  THEN preSearch
  ELSE NoPreSearch

Init ==
  /\ app = NewApp
  /\ pc = "new"
  /\ lastEvent = Event("new", NoKey, NewApp, 0)
  /\ spawned = <<>>
  /\ preSearch = NoPreSearch
  /\ dialogPid = None
  /\ call = NoCall

\* run up to the loop: running = true, the first refresh_processes
Start(runs) ==
  /\ pc = "new"
  /\ \E run \in runs :
       /\ app' = refresh_processes([app EXCEPT !.running = TRUE], run)
       /\ lastEvent' = Event("start", NoKey, app, run)
  /\ pc' = "poll"
  /\ spawned' = <<>>
  /\ preSearch' = NoPreSearch
  /\ dialogPid' = None
  /\ UNCHANGED call

\* poll returns true and the event is a key press
KeyEvent(keys, runs, outs) ==
  /\ pc = "poll"
  /\ \E key \in keys :
       /\ (app.mode = "Search" /\ key.code = "Char") =>
            (key.ch \in TypedChars /\ Len(app.search_query) < MaxQueryLen)
       /\ \E env \in Envs(app, key, runs, outs) :
            /\ app' = on_key_event(app, key, env)
            /\ lastEvent' = Event("key", key, app, env.run)
            /\ spawned' = Spawned(app, key, env)
  /\ pc' = "timers"
  /\ preSearch' = TrackSearch(app, app')
  /\ dialogPid' = TrackDialog(app, app')
  /\ UNCHANGED call

\* poll times out, or the event is not a key press
NoKeyEvent ==
  /\ pc = "poll"
  /\ pc' = "timers"
  /\ lastEvent' = Event("none", NoKey, app, 0)
  /\ spawned' = <<>>
  /\ preSearch' = TrackSearch(app, app)
  /\ dialogPid' = TrackDialog(app, app)
  /\ UNCHANGED <<app, call>>

\* the end of the loop body: loop again while running
LoopTest == IF app'.running THEN pc' = "poll" ELSE pc' = "done"

\* the refresh interval has elapsed
TimerRefresh(runs) ==
  /\ pc = "timers"
  /\ \E run \in runs :
       /\ app' = refresh_processes(app, run)
       /\ lastEvent' = Event("timer", NoKey, app, run)
  /\ spawned' = <<>>
  /\ preSearch' = TrackSearch(app, app')
  /\ dialogPid' = TrackDialog(app, app')
  /\ UNCHANGED call
  /\ LoopTest

\* the refresh interval has not elapsed
TimerIdle ==
  /\ pc = "timers"
  /\ spawned' = <<>>
  /\ UNCHANGED <<app, lastEvent, preSearch, dialogPid, call>>
  /\ LoopTest

----------------------------------------------------------------------------
\* The keys pressed, the lsof runs and the kill outcomes of each specification.

PlainKey(code) == Key(code, "", FALSE)

CharKey(ch) == Key("Char", ch, FALSE)

\* the keys of the confirm dialog, of moving to a row, of the refresh and of
\* opening the search box
KillKeys ==
  {PlainKey("Down"), PlainKey("Enter"), PlainKey("Left"), PlainKey("Right"),
   PlainKey("Esc"), CharKey("y"), CharKey("n"), CharKey("r"), CharKey("/")}

NextKill ==
  \/ Start(RunIds)
  \/ KeyEvent(KillKeys, RunIds, KillOuts)
  \/ NoKeyEvent
  \/ TimerRefresh(RunIds)
  \/ TimerIdle

SpecKill == Init /\ [][NextKill]_vars

\* every key the handlers tell apart, and one they ignore; the characters of
\* the search box
Keys ==
  {PlainKey(code) :
     code \in {"Esc", "Enter", "Backspace", "Up", "Down", "Left", "Right", "Tab"}}
  \cup {CharKey(ch) :
          ch \in {"q", "r", "s", "/", "1", "2", "3", "4", "5", "6", "y", "n"}}
  \cup {CharKey(ch) : ch \in TypedChars}
  \cup {Key("Char", "c", TRUE)}

\* the keys of the list and of the search box, and the two answers of the
\* confirm dialog
ViewKeys ==
  {PlainKey(code) : code \in {"Esc", "Enter", "Backspace", "Up", "Down"}}
  \cup {CharKey(ch) : ch \in {"/", "s", "1", "r", "n", "y"} \cup TypedChars}

\* lsof fails, or lists nothing, two or three processes
ViewRuns == 2..5

\* kill succeeds
ViewOuts == {o \in KillOuts : o.spawn = None /\ o.success}

Next ==
  \/ Start(ViewRuns)
  \/ KeyEvent(ViewKeys, ViewRuns, ViewOuts)
  \/ NoKeyEvent
  \/ TimerRefresh(ViewRuns)
  \/ TimerIdle

Spec == Init /\ [][Next]_vars

----------------------------------------------------------------------------
\* Functions called on their own, on the values the program can give them.

MaxMoves == 3

\* the App showing the snapshot p under the query q, the cursor on row i
Showing(p, q, i) ==
  SelectRow([NewApp EXCEPT !.running = TRUE,
                           !.status_message = None,
                           !.processes = p,
                           !.search_query = q,
                           !.filtered_processes = Views[p, q, "Port", FALSE],
                           !.selected_index = i], i)

\* the cursor is put on a row of a view
CallNav ==
  /\ call = NoCall
  /\ \E p \in Snapshots, q \in Queries :
       \E i \in 0..Max({0, Len(Views[p, q, "Port", FALSE]) - 1}) :
         call' = [fn |-> "nav", start |-> Showing(p, q, i), app |-> Showing(p, q, i),
                  nexts |-> 0, prevs |-> 0]
  /\ UNCHANGED <<app, pc, lastEvent, spawned, preSearch, dialogPid>>

NavNext ==
  /\ call.fn = "nav"
  /\ call.nexts < MaxMoves
  /\ call' = [call EXCEPT !.app = select_next(@), !.nexts = @ + 1]
  /\ UNCHANGED <<app, pc, lastEvent, spawned, preSearch, dialogPid>>

NavPrevious ==
  /\ call.fn = "nav"
  /\ call.prevs < MaxMoves
  /\ call' = [call EXCEPT !.app = select_previous(@), !.prevs = @ + 1]
  /\ UNCHANGED <<app, pc, lastEvent, spawned, preSearch, dialogPid>>

\* the queries given to the filter: letters of either case and digits
CallQueries == SeqsUpTo({"A", "b", "Y", "0", "7"}, MaxQueryLen)

\* the filter and the sort of apply_filter_and_sort
CallView ==
  /\ call = NoCall
  /\ \E p \in Snapshots, q \in CallQueries, k \in SortKeys, a \in BOOLEAN :
       call' = [fn |-> "view", processes |-> p, search_query |-> q, sort_by |-> k,
                sort_ascending |-> a, view |-> FilterAndSort(p, q, k, a)]
  /\ UNCHANGED <<app, pc, lastEvent, spawned, preSearch, dialogPid>>

MaxLines == 3

\* lines of lsof output: the header, lines of ten, nine, eight and six
\* fields, a line with spaces before, between and after its fields, and an
\* empty line
RawLines ==
  {Header, LineAb, LineBa, LineShort, <<>>,
   <<"b", "a", " ", "7", " ", "b", "o", " ", "5", "u", " ", "4", " ", "d", " ", "0", "t", "0", " ", "T", "C", "P", " ", "*", ":", "4", "4", "3">>,
   <<"b", "a", " ", "7", " ", "b", "o", " ", "5", "u", " ", "4", " ", "d", " ", "0", "t", "0", " ", "T", "C", "P">>,
   <<" ", " ", "c", "q", " ", " ", "3", "0", " ", "c", "y", " ", "3", "u", " ", "4", " ", "d", " ", "0", "t", "0", " ", "T", "C", "P", " ", "*", ":", "8", "0", " ", " ", " ", "(", "L", "I", "S", "T", "E", "N", ")", " ">>}

\* get_listening_processes on an output of lsof that exited with success
CallDiscover ==
  /\ call = NoCall
  /\ \E stdout \in SeqsUpTo(RawLines, MaxLines) :
       call' = [fn |-> "discover", stdout |-> stdout,
                result |-> get_listening_processes(
                             LsofRun(None, TRUE, stdout, <<>>,
                                     [i \in DOMAIN stdout |-> PsAb]))]
  /\ UNCHANGED <<app, pc, lastEvent, spawned, preSearch, dialogPid>>

\* texts in the place of the port, each with the number u32's from_str
\* gives it, 0 standing for an error
PortTexts ==
  {<<<<"8", "0", "8", "0">>, 8080>>, <<<<"4", "4", "3">>, 443>>,
   <<<<"6", "5", "5", "3", "5">>, 65535>>, <<<<"0", "8", "0">>, 80>>,
   <<<<"+", "8", "0">>, 80>>, <<<<"0">>, 0>>, <<<<>>, 0>>, <<<<"*">>, 0>>,
   <<<<"h", "t", "t", "p">>, 0>>, <<<<"8", "0", "a">>, 0>>,
   <<<<"9", "9", "9", "9", "9", "9", "9", "9", "9", "9", "9">>, 0>>}

\* extract_port and the port shown, of a name made of an address (none,
\* any, IPv4, or one with colons inside), a text and a suffix
CallPort ==
  /\ call = NoCall
  /\ \E host \in {<<>>, <<"*", ":">>,
                   <<"1", "2", "7", ".", "0", ".", "0", ".", "1", ":">>,
                   <<"0", ":", "0", ":">>},
        text \in PortTexts,
        suffix \in {<<>>, <<" ">> \o LISTEN, LISTEN \o <<" ">>} :
       call' = [fn |-> "port", host |-> host, text |-> text[1], number |-> text[2],
                suffix |-> suffix,
                name |-> host \o text[1] \o suffix,
                port |-> port(host \o text[1] \o suffix),
                sort |-> extract_port(host \o text[1] \o suffix)]
  /\ UNCHANGED <<app, pc, lastEvent, spawned, preSearch, dialogPid>>

NextCalls ==
  \/ CallNav
  \/ NavNext
  \/ NavPrevious
  \/ CallView
  \/ CallDiscover
  \/ CallPort

SpecCalls == Init /\ [][NextCalls]_vars

----------------------------------------------------------------------------
\* on_key_event called on its own, on the states the App can be in.

MaxPresses == 6

\* the App in each mode, showing a snapshot of the runs of lsof under a query
\* and a sort, the cursor on a row, either button of the confirm dialog
\* highlighted last
Screens ==
  UNION {{[Showing(p, q, i) EXCEPT !.sort_by = k,
                                   !.sort_ascending = a,
                                   !.filtered_processes = Views[p, q, k, a],
                                   !.mode = m,
                                   !.confirm_button_selected = b] :
            i \in 0..Max({0, Len(Views[p, q, "Port", FALSE]) - 1}),
            k \in SortKeys, a \in BOOLEAN,
            m \in {"ProcessList", "ConfirmKill", "Search"}, b \in BOOLEAN} :
         p \in {Discovered[r].val : r \in ViewRuns}, q \in Queries}

\* a key is pressed
PressKey ==
  /\ call = NoCall
  /\ \E s \in Screens, key \in Keys :
       /\ (s.mode = "Search" /\ key.code = "Char") =>
            (key.ch \in TypedChars /\ Len(s.search_query) < MaxQueryLen)
       /\ \E env \in Envs(s, key, ViewRuns, KillOuts) :
            call' = [fn |-> "keys", start |-> s, key |-> key, times |-> 1,
                     before |-> s, app |-> on_key_event(s, key, env),
                     spawned |-> Spawned(s, key, env)]
  /\ UNCHANGED <<app, pc, lastEvent, spawned, preSearch, dialogPid>>

\* the same key is pressed again, while the loop runs
PressAgain ==
  /\ call.fn = "keys"
  /\ call.app.running
  /\ call.times < MaxPresses
  /\ (call.app.mode = "Search" /\ call.key.code = "Char") =>
       (call.key.ch \in TypedChars /\ Len(call.app.search_query) < MaxQueryLen)
  /\ \E env \in Envs(call.app, call.key, ViewRuns, KillOuts) :
       call' = [call EXCEPT !.times = @ + 1,
                            !.before = call.app,
                            !.app = on_key_event(call.app, call.key, env),
                            !.spawned = Spawned(call.app, call.key, env)]
  /\ UNCHANGED <<app, pc, lastEvent, spawned, preSearch, dialogPid>>

\* the refresh interval elapses instead
Tick ==
  /\ call = NoCall
  /\ \E s \in Screens, run \in ViewRuns :
       call' = [fn |-> "tick", start |-> s, key |-> NoKey, times |-> 1,
                before |-> s, app |-> refresh_processes(s, run),
                spawned |-> <<>>]
  /\ UNCHANGED <<app, pc, lastEvent, spawned, preSearch, dialogPid>>

NextKeys ==
  \/ PressKey
  \/ PressAgain
  \/ Tick

SpecKeys == Init /\ [][NextKeys]_vars

----------------------------------------------------------------------------
\* Properties

\* the last step handled a Yes in the confirm dialog
ChoseYes == lastEvent.kind = "key" /\ lastEvent.answer = "yes"

\* C1: after a Yes whose kill -TERM succeeded, status_message is present and
\* contains the pid, error_message is absent and the mode is ProcessList.
C1_GracefulKillReported ==
  (ChoseYes /\ Len(spawned) = 1 /\ spawned[1].signal = "TERM" /\ spawned[1].ok)
    => /\ app.status_message # None
       /\ contains(app.status_message[1], spawned[1].pid)
       /\ app.error_message = None
       /\ app.mode = "ProcessList"

\* C2: after a Yes whose kill -TERM failed and whose kill -KILL succeeded,
\* status_message is present and tells of a forced kill, error_message is
\* absent and the mode is ProcessList.
C2_ForcedKillReported ==
  (ChoseYes /\ Len(spawned) = 2 /\ ~spawned[1].ok /\ spawned[2].ok)
    => /\ app.status_message # None
       /\ app.status_message[1][1] = "Force killed process "
       /\ app.error_message = None
       /\ app.mode = "ProcessList"

\* C3: a step in which both kill -TERM and kill -KILL fail leaves
\* error_message containing both failure reasons, no status_message and the
\* mode ProcessList, runs no lsof and changes neither processes nor
\* filtered_processes.
C3_DoubleFailure ==
  [][(Len(spawned') = 2 /\ ~spawned'[1].ok /\ ~spawned'[2].ok)
       => /\ app'.error_message # None
          /\ contains(app'.error_message[1], spawned'[1].err)
          /\ contains(app'.error_message[1], spawned'[2].err)
          /\ app'.status_message = None
          /\ app'.mode = "ProcessList"
          /\ lastEvent'.lsof = "none"
          /\ app'.processes = app.processes
          /\ app'.filtered_processes = app.filtered_processes]_vars

C3_Witness ==
  /\ ChoseYes
  /\ Len(spawned) = 2 /\ ~spawned[1].ok /\ ~spawned[2].ok
  /\ spawned[1].err # <<>> /\ spawned[2].err # <<>> /\ spawned[1].err # spawned[2].err
  /\ app.error_message # None
  /\ app.filtered_processes # <<>>

\* C4: after a Yes in the confirm dialog the mode is ProcessList.
C4_YesLeavesDialog == ChoseYes => app.mode = "ProcessList"

\* C5: kill commands are run only by a step that handles a Yes in the confirm
\* dialog, and each is given the pid of the row that selected_index names in
\* filtered_processes when the step starts.
C5_KillsCurrentSelection ==
  [][spawned' # <<>>
       => /\ pc = "poll"
          /\ app.mode = "ConfirmKill"
          /\ lastEvent'.kind = "key"
          /\ lastEvent'.answer = "yes"
          /\ app.selected_index < Len(app.filtered_processes)
          /\ \A i \in DOMAIN spawned' :
               spawned'[i].pid = app.filtered_processes[app.selected_index + 1].pid]_vars

\* the process killed is not the one that was selected when the dialog opened
C5_Witness ==
  /\ ChoseYes
  /\ spawned # <<>>
  /\ dialogPid # None
  /\ spawned[1].pid # dialogPid[1]

\* C6: the kill commands of one step are kill -TERM alone when it succeeded,
\* or a failed kill -TERM followed by one kill -KILL of the same pid.
C6_Escalation ==
  \/ spawned = <<>>
  \/ /\ Len(spawned) = 1
     /\ spawned[1].signal = "TERM" /\ spawned[1].ok
  \/ /\ Len(spawned) = 2
     /\ spawned[1].signal = "TERM" /\ ~spawned[1].ok
     /\ spawned[2].signal = "KILL" /\ spawned[2].pid = spawned[1].pid

C6_Witness ==
  /\ ChoseYes
  /\ Len(spawned) = 2 /\ ~spawned[1].ok /\ spawned[2].ok

\* C7: filtered_processes is always the filter and sort of processes under
\* search_query, sort_by and sort_ascending.
C7_ViewConsistent ==
  app.filtered_processes =
    Views[app.processes, app.search_query, app.sort_by, app.sort_ascending]

\* under a search and a sort other than the first, the view is not in the
\* order of the snapshot
C7_Witness ==
  /\ lastEvent.kind = "key"
  /\ app.sort_by # "Port"
  /\ app.search_query # <<>>
  /\ Len(app.filtered_processes) = 2
  /\ app.filtered_processes[1] # app.processes[1]

\* C8: when filtered_processes is not empty, selected_index is one of its
\* indices.
C8_CursorInRange ==
  app.filtered_processes # <<>>
    => app.selected_index >= 0 /\ app.selected_index < Len(app.filtered_processes)

\* a timer refresh left a view shorter than the snapshot lsof can give, with
\* the cursor on its last row
C8_Witness ==
  /\ lastEvent.kind = "timer" /\ lastEvent.lsof = "ok"
  /\ Len(app.filtered_processes) = 2
  /\ app.selected_index = 1

\* C9: a successful refresh whose snapshot has no match for the search query
\* in force clears the query and leaves the whole snapshot, sorted, in view.
C9_SelfHealingQuery ==
  [][(/\ lastEvent'.lsof = "ok"
      /\ app.search_query # <<>>
      /\ Views[app'.processes, app.search_query, app.sort_by, app.sort_ascending] = <<>>)
       => /\ app'.search_query = <<>>
          /\ app'.filtered_processes =
               Views[app'.processes, <<>>, app'.sort_by, app'.sort_ascending]]_vars

\* a timer refresh cleared a query and the view shows processes
C9_Witness ==
  /\ lastEvent.kind = "timer" /\ lastEvent.lsof = "ok"
  /\ lastEvent.searching
  /\ app.search_query = <<>>
  /\ Len(app.filtered_processes) >= 2

\* the last step handled the cancel key of the search box, which had been
\* opened on the snapshot still in force
Cancelled ==
  /\ lastEvent.kind = "key"
  /\ lastEvent.answer = "cancel"
  /\ preSearch.active

\* C10 as stated: after characters were typed in the search box and cancel
\* was pressed, filtered_processes and selected_index are those from before
\* the box was opened.
C10_CancelRestores ==
  (Cancelled /\ lastEvent.searching)
    => /\ app.filtered_processes = preSearch.filtered_processes
       /\ app.selected_index = preSearch.selected_index

\* C10 as amended: cancel leaves the mode ProcessList, no query and the
\* cursor on row 0; the view is the one from before the box was opened when
\* there was no query then.
C10_CancelResets ==
  Cancelled
    => /\ app.mode = "ProcessList"
       /\ app.search_query = <<>>
       /\ app.selected_index = 0
       /\ preSearch.search_query = <<>>
            => app.filtered_processes = preSearch.filtered_processes

C10_Witness ==
  /\ Cancelled
  /\ lastEvent.searching
  /\ preSearch.search_query = <<>>
  /\ Len(preSearch.filtered_processes) >= 2
  /\ app.filtered_processes = preSearch.filtered_processes

\* C11: after any select_next and select_previous on a view of len rows,
\* selected_index is the starting row plus the number of select_next minus
\* the number of select_previous, modulo len, and nothing but the cursor has
\* changed; on an empty view nothing has changed.  So len select_next return
\* to the starting row, select_next from the last row goes to row 0 and
\* select_previous from row 0 goes to the last row.
C11_WrapAround ==
  call.fn = "nav"
    => IF call.start.filtered_processes = <<>> THEN call.app = call.start
       ELSE /\ call.app.selected_index =
                 (call.start.selected_index + call.nexts
                    + call.prevs * (Len(call.start.filtered_processes) - 1))
                 % Len(call.start.filtered_processes)
            /\ call.app = SelectRow([call.start EXCEPT !.selected_index =
                                       call.app.selected_index],
                                    call.app.selected_index)

\* three select_next on three rows, from the middle row
C11_Witness ==
  /\ call.fn = "nav"
  /\ Len(call.start.filtered_processes) = 3
  /\ call.nexts = 3 /\ call.prevs = 0
  /\ call.start.selected_index = 1
  /\ call.app.selected_index = 1

\* C12 as stated: the view under the other direction is the view reversed.
C12_ExactReverse ==
  call.fn = "view"
    => FilterAndSort(call.processes, call.search_query, call.sort_by,
                     ~call.sort_ascending)
         = [i \in DOMAIN call.view |-> call.view[Len(call.view) + 1 - i]]

\* C12 as amended: the view under the other direction has the same entries;
\* two entries that compare unequal under the sort key are in the opposite
\* order in it, two that compare equal are in the same order.
C12_ReverseButTies ==
  call.fn = "view"
    => LET other == FilterAndSort(call.processes, call.search_query, call.sort_by,
                                  ~call.sort_ascending)
           At(v, e) == CHOOSE i \in DOMAIN v : v[i] = e
       IN /\ Len(other) = Len(call.view)
          /\ \A i \in DOMAIN call.view : \E j \in DOMAIN other : other[j] = call.view[i]
          /\ \A i, j \in DOMAIN call.view :
               i < j =>
                 IF KeyCmp(call.view[i], call.view[j], call.sort_by) = 0
                 THEN At(other, call.view[i]) < At(other, call.view[j])
                 ELSE At(other, call.view[i]) > At(other, call.view[j])

\* three rows of which two have the same port, sorted by port
C12_Witness ==
  /\ call.fn = "view"
  /\ call.sort_by = "Port"
  /\ Len(call.view) = 3
  /\ \E i, j \in DOMAIN call.view :
       /\ i < j
       /\ KeyCmp(call.view[i], call.view[j], "Port") = 0
       /\ KeyCmp(call.view[1], call.view[3], "Port") # 0

\* C13: sorted by StartTime, no entry without a start time is before an
\* entry with one, whatever the direction.
C13_KnownFirst ==
  app.sort_by = "StartTime"
    => \A i, j \in DOMAIN app.filtered_processes :
         (i < j /\ app.filtered_processes[j].start_time # None)
           => app.filtered_processes[i].start_time # None

\* C20: the view has exactly the entries of the snapshot that the query
\* keeps: every entry when it is empty, else those of which it is, letter
\* case ignored, a substring of command, user or name, or, as typed, a
\* substring of pid.
C20_Filter ==
  call.fn = "view"
    => LET Keep(e) ==
             \/ call.search_query = <<>>
             \/ contains(to_lowercase(e.command), to_lowercase(call.search_query))
             \/ contains(to_lowercase(e.user), to_lowercase(call.search_query))
             \/ contains(to_lowercase(e.name), to_lowercase(call.search_query))
             \/ contains(e.pid, call.search_query)
       IN /\ \A i \in DOMAIN call.processes :
               Keep(call.processes[i])
                 <=> \E j \in DOMAIN call.view : call.view[j] = call.processes[i]
          /\ \A j \in DOMAIN call.view :
               \E i \in DOMAIN call.processes : call.processes[i] = call.view[j]
          /\ Len(call.view) =
               Cardinality({i \in DOMAIN call.processes : Keep(call.processes[i])})

\* a query in upper case kept some entries by their user and dropped others
C20_Witness ==
  /\ call.fn = "view"
  /\ call.search_query = <<"Y">>
  /\ call.view # <<>>
  /\ Len(call.view) < Len(call.processes)

\* the positions of a line where a field starts
FieldStarts(line) ==
  {i \in DOMAIN line : line[i] # " " /\ (i = 1 \/ line[i - 1] = " ")}

\* the text of a line from its n-th field on, without the spaces after the
\* last field and with one space where the line has several
FromField(line, n) ==
  LET first == CHOOSE i \in FieldStarts(line) :
                 Cardinality({j \in FieldStarts(line) : j <= i}) = n
      last == Max({i \in DOMAIN line : line[i] # " "})
      kept == {i \in first..last : line[i] # " " \/ line[i - 1] # " "}
      Nth(k) == CHOOSE i \in kept : Cardinality({j \in kept : j <= i}) = k
  IN [k \in 1..Cardinality(kept) |-> line[Nth(k)]]

\* C14: of an output of lsof that exited with success, the result is Ok and
\* has one entry for each line after the first that has nine fields or more,
\* in the order of the lines; the name of each is the text of its line from
\* the ninth field on, with single spaces between the fields.
C14_Discover ==
  call.fn = "discover"
    => LET kept == SelectSeq(IF call.stdout = <<>> THEN <<>> ELSE Tail(call.stdout),
                             LAMBDA line : Cardinality(FieldStarts(line)) >= 9)
       IN /\ call.result.ok
          /\ Len(call.result.val) = Len(kept)
          /\ \A n \in DOMAIN kept :
               /\ call.result.val[n].name = FromField(kept[n], 9)
               /\ call.result.val[n].command \o <<" ">> \o call.result.val[n].pid
                    \o <<" ">> \o call.result.val[n].user \o <<" ">>
                    \o call.result.val[n].fd \o <<" ">> \o call.result.val[n].type_
                    \o <<" ">> \o call.result.val[n].device \o <<" ">>
                    \o call.result.val[n].size_off \o <<" ">> \o call.result.val[n].node
                    \o <<" ">> \o call.result.val[n].name
                    = FromField(kept[n], 1)

\* a line of six fields is dropped, and the line after it, which has spaces
\* before its fields and several spaces inside its name, is kept
C14_Witness ==
  /\ call.fn = "discover"
  /\ Len(call.stdout) = 3
  /\ call.stdout[2] = LineShort
  /\ call.stdout[3] # <<>> /\ Head(call.stdout[3]) = " "
  /\ call.result.ok
  /\ Len(call.result.val) = 1
  /\ call.result.val[1].name = <<"*", ":", "8", "0", " ", "(", "L", "I", "S", "T", "E", "N", ")">>

\* C15: no two entries of processes have the same pid.
C15_PidUnique ==
  \A i, j \in DOMAIN app.processes :
    app.processes[i].pid = app.processes[j].pid => i = j

DiscoveryFailed(s) ==
  s.error_message # None /\ s.error_message[1][1] = "Failed to get processes: "

\* C18 as stated: while error_message tells of a failed discovery, it
\* changes only in a step that handles the refresh key.
C18_ErrorUntilManualRefresh ==
  [][(DiscoveryFailed(app) /\ app'.error_message # app.error_message)
       => /\ pc = "poll"
          /\ app.mode = "ProcessList"
          /\ lastEvent'.kind = "key"
          /\ lastEvent'.lsof # "none"]_vars

\* C18 as amended: while error_message tells of a failed discovery, a step
\* that runs lsof with success (the timer's refresh, the refresh key, the
\* refresh after a kill) clears it, a step that runs lsof without success
\* leaves it telling of a failed discovery, and a step that runs neither
\* lsof nor kill leaves it unchanged.
C18_ErrorUntilNextRefresh ==
  [][DiscoveryFailed(app)
       => /\ lastEvent'.lsof = "ok" => app'.error_message = None
          /\ lastEvent'.lsof = "err" => DiscoveryFailed(app')
          /\ (lastEvent'.lsof = "none" /\ spawned' = <<>>)
               => app'.error_message = app.error_message]_vars

\* the timer's refresh has failed while an earlier snapshot is shown
C18_Witness ==
  /\ DiscoveryFailed(app)
  /\ lastEvent.kind = "timer"
  /\ lastEvent.lsof = "err"
  /\ app.processes # <<>>
  /\ pc = "poll"

\* C19: a step that handles a No in the confirm dialog sets the mode to
\* ProcessList, changes nothing else of the App, and runs neither kill nor
\* lsof.
C19_NoHasNoEffect ==
  [][(pc = "poll" /\ lastEvent'.kind = "key" /\ lastEvent'.answer = "no")
       => /\ app.mode = "ConfirmKill"
          /\ app' = [app EXCEPT !.mode = "ProcessList"]
          /\ spawned' = <<>>
          /\ lastEvent'.lsof = "none"]_vars

\* No was chosen with the No button highlighted while an error was shown
C19_Witness ==
  /\ lastEvent.kind = "key"
  /\ lastEvent.answer = "no"
  /\ pc = "timers"
  /\ app.mode = "ProcessList"
  /\ ~app.confirm_button_selected
  /\ app.error_message # None
  /\ app.filtered_processes # <<>>

\* C21: a step that only refreshes (no kill) and whose lsof run fails sets
\* error_message to "Failed to get processes: " followed by the error of a
\* failing run (which contains the stderr of lsof when lsof exited
\* non-zero), sets status_message to None, and leaves processes,
\* filtered_processes, selected_index, list_state, search_query, sort_by,
\* sort_ascending, mode and confirm_button_selected unchanged.
C21_FailedRefreshKeepsSnapshot ==
  [][(lastEvent'.lsof = "err" /\ spawned' = <<>>)
       => /\ \E r \in RunIds :
               /\ ~Discovered[r].ok
               /\ app'.error_message =
                    Some(<<"Failed to get processes: ">> \o Discovered[r].err)
               /\ LsofRuns[r].spawn = None
                    => contains(app'.error_message[1], LsofRuns[r].stderr)
          /\ app'.status_message = None
          /\ app'.processes = app.processes
          /\ app'.filtered_processes = app.filtered_processes
          /\ app'.selected_index = app.selected_index
          /\ app'.list_state = app.list_state
          /\ app'.search_query = app.search_query
          /\ app'.sort_by = app.sort_by
          /\ app'.sort_ascending = app.sort_ascending
          /\ app'.mode = app.mode
          /\ app'.confirm_button_selected = app.confirm_button_selected]_vars

\* lsof exited non-zero in the timer's refresh while the cursor was on the
\* second row of an earlier snapshot
C21_Witness ==
  /\ lastEvent.kind = "timer"
  /\ lastEvent.lsof = "err"
  /\ app.error_message # None
  /\ contains(app.error_message[1], <<"lsof: status error">>)
  /\ app.selected_index = 1
  /\ Len(app.filtered_processes) >= 2

\* C27: status_message and error_message are never both present.
C27_OneMessage == ~(app.status_message # None /\ app.error_message # None)

\* the first discovery has failed: the error has taken the place of the
\* loading status
C27_Witness ==
  /\ pc = "poll"
  /\ lastEvent.kind = "start"
  /\ lastEvent.lsof = "err"
  /\ app.error_message # None
  /\ app.status_message = None

\* a step that calls refresh_processes: the first refresh, the timer's, the
\* refresh key, the refresh after a kill
Refreshes ==
  \/ pc = "new"
  \/ pc = "timers" /\ lastEvent'.kind = "timer"
  \/ pc = "poll" /\ lastEvent'.kind = "key" /\ lastEvent'.lsof # "none"

\* C29: a step that only refreshes (the first refresh, the timer's refresh
\* in any mode, the refresh key), whether lsof succeeds or fails, leaves
\* mode, sort_by, sort_ascending and confirm_button_selected unchanged.
C29_RefreshKeepsMode ==
  [][(Refreshes /\ spawned' = <<>>)
       => /\ app'.mode = app.mode
          /\ app'.sort_by = app.sort_by
          /\ app'.sort_ascending = app.sort_ascending
          /\ app'.confirm_button_selected = app.confirm_button_selected]_vars

\* the timer's refresh has emptied the view under the confirm dialog, the No
\* button highlighted
C29_Witness ==
  /\ lastEvent.kind = "timer"
  /\ lastEvent.lsof = "ok"
  /\ app.mode = "ConfirmKill"
  /\ ~app.confirm_button_selected
  /\ app.filtered_processes = <<>>

\* C30: a step that refreshes with success leaves selected_index unchanged
\* when it is an index of the new filtered_processes and sets it to 0 when
\* it is not; after every step, selected_index is 0 when filtered_processes
\* is empty.
C30_CursorAfterRefresh ==
  [][/\ (Refreshes /\ lastEvent'.lsof = "ok")
          => app'.selected_index =
               IF app.selected_index < Len(app'.filtered_processes)
               THEN app.selected_index
               ELSE 0
     /\ app'.filtered_processes = <<>> => app'.selected_index = 0]_vars

\* the timer's refresh left the cursor on the third row
C30_Witness ==
  /\ lastEvent.kind = "timer"
  /\ lastEvent.lsof = "ok"
  /\ app.selected_index = 2
  /\ Len(app.filtered_processes) = 3

\* a key was pressed in the given mode
Pressed(mode) == call.fn = "keys" /\ call.before.mode = mode

\* the view after the call is the filter and the sort of the snapshot from
\* before it, under the query, the key and the direction after it
Recomputed ==
  call.app.filtered_processes =
    Views[call.before.processes, call.app.search_query, call.app.sort_by,
          call.app.sort_ascending]

SortCycle == <<"Port", "Pid", "User", "Command", "Memory", "StartTime", "Port">>

\* C22: 's' in ProcessList moves sort_by one place along Port, Pid, User,
\* Command, Memory, StartTime, Port and sorts the view again; sort_ascending,
\* search_query, selected_index and mode are unchanged; after six presses
\* sort_by is what it was before the first.
C22_CycleSort ==
  (Pressed("ProcessList") /\ IsChar(call.key, {"s"}))
    => /\ \E i \in 1..6 : /\ call.before.sort_by = SortCycle[i]
                          /\ call.app.sort_by = SortCycle[i + 1]
       /\ Recomputed
       /\ call.app.sort_ascending = call.before.sort_ascending
       /\ call.app.search_query = call.before.search_query
       /\ call.app.selected_index = call.before.selected_index
       /\ call.app.mode = call.before.mode
       /\ call.times = 6 => call.app.sort_by = call.start.sort_by

\* 's' was pressed six times on a filtered view of two rows or more, the
\* cursor below the first row
C22_Witness ==
  /\ Pressed("ProcessList")
  /\ IsChar(call.key, {"s"})
  /\ call.times = 6
  /\ call.start.sort_by = "Memory"
  /\ call.app.sort_by = "Memory"
  /\ call.app.search_query # <<>>
  /\ call.app.selected_index = 1

\* C23: a digit '1'..'6' in ProcessList, k being the key it names: when k is
\* the sort_by before, sort_by is unchanged and sort_ascending is negated;
\* otherwise sort_by is k and sort_ascending is false; the view is computed
\* again under the new key and direction.
C23_SetSort ==
  (Pressed("ProcessList") /\ IsChar(call.key, {"1", "2", "3", "4", "5", "6"}))
    => /\ call.app.sort_by = DigitSort(call.key.ch)
       /\ call.app.sort_ascending =
            IF call.before.sort_by = DigitSort(call.key.ch)
            THEN ~call.before.sort_ascending
            ELSE FALSE
       /\ Recomputed

\* '3' was pressed a second time: the view by user turned from descending to
\* ascending
C23_Witness ==
  /\ Pressed("ProcessList")
  /\ IsChar(call.key, {"3"})
  /\ call.times = 2
  /\ call.before.sort_by = "User"
  /\ ~call.before.sort_ascending
  /\ call.app.sort_ascending
  /\ call.app.filtered_processes # call.before.filtered_processes

\* C24: a key press takes the mode to ConfirmKill only from ProcessList, only
\* when the key is Enter and only when filtered_processes is not empty, and
\* then confirm_button_selected is true; Enter in ProcessList with an empty
\* filtered_processes leaves the mode ProcessList.
C24_ConfirmOnlyFromList ==
  call.fn = "keys"
    => /\ (call.before.mode # "ConfirmKill" /\ call.app.mode = "ConfirmKill")
            => /\ call.before.mode = "ProcessList"
               /\ call.key.code = "Enter"
               /\ call.before.filtered_processes # <<>>
               /\ call.app.confirm_button_selected
       /\ (/\ call.before.mode = "ProcessList"
           /\ call.key.code = "Enter"
           /\ call.before.filtered_processes = <<>>)
            => call.app.mode = "ProcessList"

\* Enter opened the dialog with Yes highlighted; No had been highlighted when
\* the dialog was last open
C24_Witness ==
  /\ Pressed("ProcessList")
  /\ call.key.code = "Enter"
  /\ call.times = 1
  /\ ~call.before.confirm_button_selected
  /\ call.app.mode = "ConfirmKill"
  /\ call.app.confirm_button_selected

\* C25 as stated: Left and Right in ConfirmKill each negate
\* confirm_button_selected.
C25_ArrowsToggle ==
  (Pressed("ConfirmKill") /\ call.key.code \in {"Left", "Right"})
    => call.app.confirm_button_selected = ~call.before.confirm_button_selected

\* what choosing Yes does, whatever is highlighted: the kill of the selected
\* row is run and the mode is ProcessList, or nothing when no row is selected
ActsAsYes ==
  IF call.before.selected_index < Len(call.before.filtered_processes)
  THEN /\ call.spawned # <<>>
       /\ call.spawned[1].signal = "TERM"
       /\ call.spawned[1].pid =
            call.before.filtered_processes[call.before.selected_index + 1].pid
       /\ call.app.mode = "ProcessList"
  ELSE call.spawned = <<>> /\ call.app = call.before

\* what choosing No does, whatever is highlighted
ActsAsNo ==
  /\ call.spawned = <<>>
  /\ call.app = [call.before EXCEPT !.mode = "ProcessList"]

\* C25 as amended: in ConfirmKill, Left sets confirm_button_selected to true
\* (Yes) and Right sets it to false (No), whatever it was, and change nothing
\* else; 'y' acts as Yes and 'n' as No whatever is highlighted; Enter acts as
\* Yes when Yes is highlighted and as No when No is.
C25_ArrowsSelect ==
  Pressed("ConfirmKill")
    => /\ call.key.code = "Left"
            => call.app = [call.before EXCEPT !.confirm_button_selected = TRUE]
       /\ call.key.code = "Right"
            => call.app = [call.before EXCEPT !.confirm_button_selected = FALSE]
       /\ call.key.code \in {"Left", "Right"} => call.spawned = <<>>
       /\ IsChar(call.key, {"y"}) => ActsAsYes
       /\ IsChar(call.key, {"n"}) => ActsAsNo
       /\ call.key.code = "Enter"
            => IF call.before.confirm_button_selected THEN ActsAsYes ELSE ActsAsNo

\* Left was pressed twice with No highlighted at first: Yes is highlighted
C25_Witness ==
  /\ Pressed("ConfirmKill")
  /\ call.key.code = "Left"
  /\ call.times = 2
  /\ ~call.start.confirm_button_selected
  /\ call.before.confirm_button_selected
  /\ call.app.confirm_button_selected

\* C26: a character typed in Search appends it to search_query; Backspace
\* in Search, and in ProcessList when search_query is not empty, removes
\* the last character of search_query (none when it is empty); each of the
\* three computes the view again for the new query and sets selected_index
\* to 0; when Backspace in ProcessList empties the query, the view is the
\* whole snapshot, sorted.
C26_QueryEdits ==
  call.fn = "keys"
    => /\ (call.before.mode = "Search" /\ call.key.code = "Char")
            => /\ call.app.search_query =
                    Append(call.before.search_query, call.key.ch)
               /\ Recomputed
               /\ call.app.selected_index = 0
       /\ (/\ call.key.code = "Backspace"
           /\ \/ call.before.mode = "Search"
              \/ call.before.mode = "ProcessList" /\ call.before.search_query # <<>>)
            => /\ \/ /\ call.before.search_query = <<>>
                     /\ call.app.search_query = <<>>
                  \/ /\ call.before.search_query # <<>>
                     /\ Len(call.app.search_query) = Len(call.before.search_query) - 1
                     /\ \E c \in TypedChars :
                          call.before.search_query = Append(call.app.search_query, c)
               /\ Recomputed
               /\ call.app.selected_index = 0
               /\ (call.before.mode = "ProcessList" /\ call.app.search_query = <<>>)
                    => Len(call.app.filtered_processes) = Len(call.app.processes)

\* Backspace in ProcessList removed the only character of the query: the
\* view grew and the cursor went from a lower row to the first
C26_Witness ==
  /\ Pressed("ProcessList")
  /\ call.key.code = "Backspace"
  /\ Len(call.before.search_query) = 1
  /\ call.app.search_query = <<>>
  /\ call.before.selected_index = 1
  /\ call.app.selected_index = 0
  /\ Len(call.app.filtered_processes) > Len(call.before.filtered_processes)

\* C28: running becomes false only in a key press in ProcessList, exactly
\* when the key is 'q', Ctrl-c, or Esc with an empty search_query; Esc in
\* ProcessList with a search_query in force leaves running true, empties
\* the query, computes the unfiltered view and sets selected_index to 0; no
\* key in Search or ConfirmKill and no timer refresh makes running false.
C28_QuitOnlyFromList ==
  call.fn \in {"keys", "tick"}
    => /\ ~call.app.running
            <=> /\ call.fn = "keys"
                /\ call.before.mode = "ProcessList"
                /\ \/ IsChar(call.key, {"q"})
                   \/ call.key.ctrl /\ IsChar(call.key, {"c", "C"})
                   \/ call.key.code = "Esc" /\ call.before.search_query = <<>>
       /\ (/\ Pressed("ProcessList")
           /\ call.key.code = "Esc"
           /\ call.before.search_query # <<>>)
            => /\ call.app.search_query = <<>>
               /\ Recomputed
               /\ Len(call.app.filtered_processes) = Len(call.app.processes)
               /\ call.app.selected_index = 0

\* Esc in ProcessList cleared a query in force and the loop runs on
C28_Witness ==
  /\ Pressed("ProcessList")
  /\ call.key.code = "Esc"
  /\ call.times = 1
  /\ call.before.search_query # <<>>
  /\ call.before.selected_index = 1
  /\ call.app.running
  /\ call.app.search_query = <<>>
  /\ call.app.selected_index = 0

====
